---- MODULE Spec2Model ----
(***************************************************************************)
(* s_todo: a terminal to-do manager (src/src/main.rs).                     *)
(*                                                                         *)
(* The model is the event loop of run_app.  A turn of the loop is two      *)
(* steps: ui draws the frame (terminal.draw), then one event is read and   *)
(* handled; pc says which of the two comes next.  There is one action for  *)
(* the draw and one per (input mode, key) arm of the match, each doing the *)
(* whole arm including the trailing auto-save.  State is the App struct,   *)
(* the persisted file, the wall clock read by SystemTime::now(), the size  *)
(* of the terminal, and how the process stands (running, quit, panicked).  *)
(*                                                                         *)
(* Conventions                                                             *)
(*  - Option<T>: None is << >>, Some(x) is <<x>>.                          *)
(*  - Rust indices are 0-based; element i of a Vec v is v[i + 1] here.     *)
(*  - String is a sequence of characters.  An ASCII character is written  *)
(*    as itself ("q"), any other as its code point ("U+5DE5"); Utf8Len     *)
(*    gives the bytes of its UTF-8 encoding, which String::len and the     *)
(*    byte slices of ui count.                                             *)
(*  - usize and u64 are machine words; WordRange stands for 2^64.  It is   *)
(*    larger than every index, length, clock reading and total the bounds  *)
(*    let the model reach by counting up, so a value wraps in the model    *)
(*    exactly where it wraps in the code; a wrapped value v of the model   *)
(*    stands for 2^64 - (WordRange - v).  An overflowing + or - panics     *)
(*    when the build has overflow checks (debug profile) and wraps         *)
(*    otherwise (release profile); overflow_checks is chosen once, at      *)
(*    start.                                                               *)
(*  - An out-of-range Vec index panics in every build, and so does a byte  *)
(*    slice of a String that ends inside a character.                      *)
(*  - The terminal keeps its size through the session.  The List widget    *)
(*    of ratatui is given the selection by &mut when it is drawn: see      *)
(*    ListRender.                                                          *)
(*  - std::fs::write in save_data is taken to succeed.                     *)
(***************************************************************************)
EXTENDS Integers, Sequences, FiniteSets, TLC

VARIABLES
    projects,         \* App.projects: Vec<Project>
    project_state,    \* App.project_state.selected(): Option<usize>
    todo_state,       \* App.todo_state.selected(): Option<usize>
    active_panel,     \* App.active_panel: "Projects" | "Todos"
    input_mode,       \* App.input_mode
    input,            \* App.input: String
    persisted,        \* the data file: [ok, projects]
    clock,            \* seconds since the epoch, as SystemTime::now() reads
    overflow_checks,  \* TRUE: arithmetic overflow panics; FALSE: it wraps
    terminal,         \* f.area(): [width, height], in cells
    pc,               \* what run_app does next: "draw" | "read"
    status,           \* "running" | "quit" | the message of a panic
    pair,             \* history: the toggle_work pair under way (SpecTodo)
    last_key,         \* history: the key just handled, where a claim asks
    result            \* what a function called on its own returned

prog_vars == <<projects, project_state, todo_state, active_panel, input_mode,
               input, persisted, clock, overflow_checks, terminal, pc, status>>

\* what the model writes down beside the program's state
hist == <<pair, last_key, result>>

vars == <<prog_vars, hist>>

app_vars == <<projects, project_state, todo_state, active_panel, input_mode,
              input, persisted>>

----------------------------------------------------------------------------
(* Bounds of the model *)

\* most projects the list holds
MaxProjects == 2
\* most todos over all projects
MaxTodos == 2
\* most characters typed into the text buffer
MaxInput == 2
\* largest clock reading
MaxClock == 2
\* number of values of a machine word (stands for 2^64)
WordRange == 64
\* largest selection index reached by counting up over an empty list
MaxIndex == 4
\* largest total_duration reached by adding sessions up
MaxTotal == 3

\* characters the keyboard sends as KeyCode::Char(c) in a text-entry mode
Chars == {"q"}

----------------------------------------------------------------------------
(* Option *)

None == << >>

Some(x) == <<x>>

Unwrap(o) == o[1]

----------------------------------------------------------------------------
(* Machine-word arithmetic *)

WrappingSub(a, b) == (a - b + WordRange) % WordRange

WrappingAdd(a, b) == (a + b) % WordRange

\* a word the model holds: reached by counting up within the bounds, or
\* wrapped to the top of the range
IndexInModel(i) == i <= MaxIndex \/ i >= WordRange - 1

TotalInModel(d) == d <= MaxTotal \/ d >= WordRange - MaxClock

----------------------------------------------------------------------------
(* Characters and strings *)

\* the characters of the built-in data that UTF-8 encodes in three bytes
ThreeByteChars ==
    {"U+5DE5", "U+4F5C", "U+9879", "U+76EE", "U+5B8C", "U+6210", "U+62A5",
     "U+544A", "U+4E2A", "U+4EBA", "U+5B66", "U+4E60"}

\* bytes of the UTF-8 encoding of a character
Utf8Len(c) == IF c \in ThreeByteChars THEN 3 ELSE 1

\* String::len: the length in bytes
RECURSIVE ByteLen(_)
ByteLen(s) == IF s = << >> THEN 0 ELSE Utf8Len(Head(s)) + ByteLen(Tail(s))

\* str::is_char_boundary: byte index i is the start of a character or the
\* end of s
is_char_boundary(s, i) ==
    \E k \in 0 .. Len(s) : ByteLen(SubSeq(s, 1, k)) = i

----------------------------------------------------------------------------
(* Todo *)

\* mutant of Todo_new: the new todo is born completed
Todo_new_completed(title) ==
    [title |-> title, description |-> << >>, completed |-> TRUE,
     start_time |-> None, end_time |-> None, total_duration |-> 0]

Todo_new(title) ==
    [title |-> title, description |-> << >>, completed |-> FALSE,
     start_time |-> None, end_time |-> None, total_duration |-> 0]

\* mutant of start_work: the end of the session before is not cleared
start_work_keeps_end(td, now) ==
    [td EXCEPT !.start_time = Some(now)]

start_work(td, now) ==
    [td EXCEPT !.start_time = Some(now), !.end_time = None]

\* the wrapped result; end_work_overflows says when a checked build panics
end_work(td, now) ==
    IF td.start_time # None
    THEN [td EXCEPT !.end_time = Some(now),
                    !.total_duration =
                        WrappingAdd(@, WrappingSub(now, Unwrap(td.start_time)))]
    ELSE td

end_work_overflows(td, now) ==
    /\ td.start_time # None
    /\ \/ now < Unwrap(td.start_time)
       \/ td.total_duration + (now - Unwrap(td.start_time)) >= WordRange

is_working(td) == td.start_time # None /\ td.end_time = None

\* mutant of toggle_work: the test of end_time is lost, so a stopped todo is
\* ended again
toggle_work_ignores_end(td, now) ==
    IF td.start_time # None
    THEN end_work(td, now)
    ELSE start_work(td, now)

toggle_work(td, now) ==
    IF td.start_time # None /\ td.end_time = None
    THEN end_work(td, now)
    ELSE start_work(td, now)

toggle_work_overflows(td, now) ==
    /\ td.start_time # None
    /\ td.end_time = None
    /\ end_work_overflows(td, now)

\* seconds in a month of 30 days, a day, an hour, a minute
SecondsPerMonth == 2592000

SecondsPerDay == 86400

SecondsPerHour == 3600

SecondsPerMinute == 60

\* one "{}unit" of a format! string
Component(n, unit) == ToString(n) \o unit

\* the components the match of format_duration picks, in the order written
format_components(total_seconds) ==
    LET months == total_seconds \div SecondsPerMonth
        days == (total_seconds % SecondsPerMonth) \div SecondsPerDay
        hours == (total_seconds % SecondsPerDay) \div SecondsPerHour
        minutes == (total_seconds % SecondsPerHour) \div SecondsPerMinute
        seconds == total_seconds % SecondsPerMinute
        mo == Component(months, "mo")
        d == Component(days, "d")
        h == Component(hours, "h")
        m == Component(minutes, "m")
        s == Component(seconds, "s")
    IN  IF months > 0
        THEN IF days > 0 /\ hours > 0 THEN <<mo, d, h>>
             ELSE IF days > 0 THEN <<mo, d>>
             ELSE IF hours > 0 THEN <<mo, h>>
             ELSE <<mo>>
        ELSE IF days > 0
        THEN IF hours > 0 /\ minutes > 0 THEN <<d, h, m>>
             ELSE IF hours > 0 THEN <<d, h>>
             ELSE IF minutes > 0 THEN <<d, m>>
             ELSE <<d>>
        ELSE IF hours > 0
        THEN IF minutes > 0 /\ seconds > 0 THEN <<h, m, s>>
             ELSE IF minutes > 0 THEN <<h, m>>
             ELSE IF seconds > 0 THEN <<h, s>>
             ELSE <<h>>
        ELSE IF minutes > 0
        THEN IF seconds > 0 THEN <<m, s>> ELSE <<m>>
        ELSE IF seconds > 0 THEN <<s>>
        ELSE << >>

\* the format! strings put one space between components
RECURSIVE JoinComponents(_)
JoinComponents(cs) ==
    IF cs = << >> THEN ""
    ELSE IF Len(cs) = 1 THEN cs[1]
    ELSE cs[1] \o " " \o JoinComponents(Tail(cs))

\* Todo::format_duration: the label of total_duration, a string
format_duration(td) ==
    IF td.total_duration = 0
    THEN ""
    ELSE JoinComponents(format_components(td.total_duration))

----------------------------------------------------------------------------
(* App *)

RECURSIVE CountTodos(_)
CountTodos(ps) ==
    IF ps = << >> THEN 0 ELSE Len(Head(ps).todos) + CountTodos(Tail(ps))

\* the built-in data of load_data: two projects of four characters, a todo
\* of four characters and one of seven (two of three bytes, a space, "Rust")
DefaultProjects ==
    << [name |-> <<"U+5DE5", "U+4F5C", "U+9879", "U+76EE">>,
        todos |-> << Todo_new(<<"U+5B8C", "U+6210", "U+62A5", "U+544A">>) >>],
       [name |-> <<"U+4E2A", "U+4EBA", "U+5B66", "U+4E60">>,
        todos |-> << Todo_new(<<"U+5B66", "U+4E60", " ", "R", "u", "s",
                                "t">>) >> ] >>

\* mutant of save_data: a project list with todos in it is not written
save_data_skips(ps) ==
    IF CountTodos(ps) > 0 THEN persisted ELSE [ok |-> TRUE, projects |-> ps]

\* save_data: the file holds a copy of the project list
save_data(ps) == [ok |-> TRUE, projects |-> ps]

\* get_current_project indexes self.projects[i] unchecked
get_current_project_panics ==
    project_state # None /\ Unwrap(project_state) >= Len(projects)

get_current_todos ==
    IF project_state # None
    THEN projects[Unwrap(project_state) + 1].todos
    ELSE << >>

\* get_current_todo_mut: Vec::get_mut, so None when either index is out of range
has_current_todo ==
    /\ project_state # None
    /\ todo_state # None
    /\ Unwrap(project_state) < Len(projects)
    /\ Unwrap(todo_state) < Len(projects[Unwrap(project_state) + 1].todos)

\* app.projects[p].todos[t] as the handlers write it: panics when out of range
todo_index_panics(p, t) ==
    \/ p >= Len(projects)
    \/ t >= Len(projects[p + 1].todos)

\* mutant of RemoveAt: pop() in place of remove(i)
RemoveAt_pop(s, i) == SubSeq(s, 1, Len(s) - 1)

\* Vec::remove(i)
RemoveAt(s, i) == SubSeq(s, 1, i) \o SubSeq(s, i + 2, Len(s))

----------------------------------------------------------------------------
(* How a handler ends *)

\* run_app waits in event::read()
Running == status = "running" /\ pc = "read"

\* a panic unwinds out of run_app: the process is gone, nothing is saved;
\* status keeps the panic message
Panic(why) ==
    /\ status' = why
    /\ UNCHANGED <<app_vars, clock, overflow_checks, terminal, pc>>

IndexOutOfBounds == "index out of bounds"

SubtractOverflow == "attempt to subtract with overflow"

DurationOverflow == "duration arithmetic overflow"

NotCharBoundary == "byte index is not a char boundary"

\* the handler returns and the loop goes round to the draw
Env ==
    /\ pc' = "draw"
    /\ UNCHANGED <<clock, overflow_checks, terminal, status>>

\* the arm changes nothing
Ignored == UNCHANGED app_vars /\ Env

Normal == Running /\ input_mode = "Normal"

----------------------------------------------------------------------------
(* Normal mode *)

\* 'q': save, then return from run_app
KeyQuit ==
    /\ Normal
    /\ persisted' = save_data(projects)
    /\ status' = "quit"
    /\ UNCHANGED <<projects, project_state, todo_state, active_panel,
                   input_mode, input, clock, overflow_checks, terminal, pc>>

\* 's': save, then continue
KeySave ==
    /\ Normal
    /\ persisted' = save_data(projects)
    /\ UNCHANGED <<projects, project_state, todo_state, active_panel,
                   input_mode, input>>
    /\ Env

\* Tab
KeyTab ==
    /\ Normal
    /\ IF active_panel = "Projects"
       THEN IF get_current_project_panics
            THEN Panic(IndexOutOfBounds)
            ELSE /\ todo_state' =
                        IF get_current_todos # << >> /\ todo_state = None
                        THEN Some(0)
                        ELSE todo_state
                 /\ active_panel' = "Todos"
                 /\ UNCHANGED <<projects, project_state, input_mode, input,
                                persisted>>
                 /\ Env
       ELSE /\ project_state' =
                   IF projects # << >> /\ project_state = None
                   THEN Some(0)
                   ELSE project_state
            /\ active_panel' = "Projects"
            /\ UNCHANGED <<projects, todo_state, input_mode, input, persisted>>
            /\ Env

\* 'j' / Down on the Projects panel
KeyDownProjects ==
    /\ Normal
    /\ active_panel = "Projects"
    /\ IF project_state # None /\ Len(projects) = 0 /\ overflow_checks
       THEN Panic(SubtractOverflow)    \* app.projects.len() - 1 underflows
       ELSE /\ LET last == WrappingSub(Len(projects), 1)
                   i == IF project_state # None
                        THEN IF Unwrap(project_state) >= last
                             THEN 0
                             ELSE Unwrap(project_state) + 1
                        ELSE 0
               IN  /\ IndexInModel(i)
                   /\ project_state' = Some(i)
                   /\ todo_state' = Some(0)
            /\ UNCHANGED <<projects, active_panel, input_mode, input,
                           persisted>>
            /\ Env

\* 'j' / Down on the Todos panel
KeyDownTodos ==
    /\ Normal
    /\ active_panel = "Todos"
    /\ IF get_current_project_panics
       THEN Panic(IndexOutOfBounds)
       ELSE /\ LET todos == get_current_todos
               IN  IF todos # << >>
                   THEN todo_state' =
                            IF todo_state # None
                            THEN IF Unwrap(todo_state) >= Len(todos) - 1
                                 THEN Some(0)
                                 ELSE Some(Unwrap(todo_state) + 1)
                            ELSE Some(0)
                   ELSE todo_state' = todo_state
            /\ UNCHANGED <<projects, project_state, active_panel, input_mode,
                           input, persisted>>
            /\ Env

\* 'k' / Up on the Projects panel
KeyUpProjects ==
    /\ Normal
    /\ active_panel = "Projects"
    /\ IF project_state = Some(0) /\ Len(projects) = 0 /\ overflow_checks
       THEN Panic(SubtractOverflow)    \* app.projects.len() - 1 underflows
       ELSE /\ LET i == IF project_state # None
                        THEN IF Unwrap(project_state) = 0
                             THEN WrappingSub(Len(projects), 1)
                             ELSE Unwrap(project_state) - 1
                        ELSE 0
               IN  /\ IndexInModel(i)
                   /\ project_state' = Some(i)
                   /\ todo_state' = Some(0)
            /\ UNCHANGED <<projects, active_panel, input_mode, input,
                           persisted>>
            /\ Env

\* 'k' / Up on the Todos panel
KeyUpTodos ==
    /\ Normal
    /\ active_panel = "Todos"
    /\ IF get_current_project_panics
       THEN Panic(IndexOutOfBounds)
       ELSE /\ LET todos == get_current_todos
               IN  IF todos # << >>
                   THEN todo_state' =
                            IF todo_state # None
                            THEN IF Unwrap(todo_state) = 0
                                 THEN Some(Len(todos) - 1)
                                 ELSE Some(Unwrap(todo_state) - 1)
                            ELSE Some(0)
                   ELSE todo_state' = todo_state
            /\ UNCHANGED <<projects, project_state, active_panel, input_mode,
                           input, persisted>>
            /\ Env

\* ' ': toggle completed on the Todos panel, ending an open session first
KeySpace ==
    /\ Normal
    /\ IF active_panel = "Todos" /\ project_state # None /\ todo_state # None
       THEN LET p == Unwrap(project_state)
                t == Unwrap(todo_state)
            IN  IF todo_index_panics(p, t)
                THEN Panic(IndexOutOfBounds)
                ELSE LET todo == projects[p + 1].todos[t + 1]
                         stop == is_working(todo) /\ ~todo.completed
                     IN  IF stop /\ overflow_checks
                              /\ end_work_overflows(todo, clock)
                         THEN Panic(DurationOverflow)
                         ELSE LET ended == IF stop
                                           THEN end_work(todo, clock)
                                           ELSE todo
                                  done == [ended EXCEPT
                                             !.completed = ~ended.completed]
                              IN  /\ TotalInModel(done.total_duration)
                                  /\ projects' =
                                        [projects EXCEPT
                                           ![p + 1].todos[t + 1] = done]
                                  /\ persisted' = save_data(projects')
                                  /\ UNCHANGED <<project_state, todo_state,
                                                 active_panel, input_mode,
                                                 input>>
                                  /\ Env
       ELSE Ignored

\* 'a': enter AddingProject / AddingTodo with an empty buffer
KeyAdd ==
    /\ Normal
    /\ input_mode' = IF active_panel = "Projects"
                     THEN "AddingProject"
                     ELSE "AddingTodo"
    /\ input' = << >>
    /\ UNCHANGED <<projects, project_state, todo_state, active_panel,
                   persisted>>
    /\ Env

\* 't': toggle the timer of the current todo on the Todos panel
KeyTimer ==
    /\ Normal
    /\ IF active_panel = "Todos" /\ has_current_todo
       THEN LET p == Unwrap(project_state)
                t == Unwrap(todo_state)
                todo == projects[p + 1].todos[t + 1]
            IN  IF overflow_checks /\ toggle_work_overflows(todo, clock)
                THEN Panic(DurationOverflow)
                ELSE /\ TotalInModel(toggle_work(todo, clock).total_duration)
                     /\ projects' =
                            [projects EXCEPT
                               ![p + 1].todos[t + 1] = toggle_work(todo, clock)]
                     /\ persisted' = save_data(projects')
                     /\ UNCHANGED <<project_state, todo_state, active_panel,
                                    input_mode, input>>
                     /\ Env
       ELSE Ignored

\* 'r': enter RenamingProject / RenamingTodo, the buffer seeded with the name
KeyRename ==
    /\ Normal
    /\ IF active_panel = "Projects"
       THEN IF project_state # None
            THEN IF Unwrap(project_state) >= Len(projects)
                 THEN Panic(IndexOutOfBounds)
                 ELSE /\ input_mode' = "RenamingProject"
                      /\ input' = projects[Unwrap(project_state) + 1].name
                      /\ UNCHANGED <<projects, project_state, todo_state,
                                     active_panel, persisted>>
                      /\ Env
            ELSE Ignored
       ELSE IF project_state # None /\ todo_state # None
            THEN LET p == Unwrap(project_state)
                     t == Unwrap(todo_state)
                 IN  IF todo_index_panics(p, t)
                     THEN Panic(IndexOutOfBounds)
                     ELSE /\ input_mode' = "RenamingTodo"
                          /\ input' = projects[p + 1].todos[t + 1].title
                          /\ UNCHANGED <<projects, project_state, todo_state,
                                         active_panel, persisted>>
                          /\ Env
            ELSE Ignored

\* 'd' on the Projects panel
KeyDeleteProject ==
    /\ Normal
    /\ active_panel = "Projects"
    /\ IF project_state # None /\ Unwrap(project_state) < Len(projects)
       THEN LET idx == Unwrap(project_state)
                left == RemoveAt(projects, idx)
            IN  /\ projects' = left
                /\ project_state' =
                       IF left = << >> THEN None
                       ELSE IF idx >= Len(left) THEN Some(Len(left) - 1)
                       ELSE project_state
                /\ persisted' = save_data(left)
                /\ UNCHANGED <<todo_state, active_panel, input_mode, input>>
                /\ Env
       ELSE Ignored

\* 'd' on the Todos panel
KeyDeleteTodo ==
    /\ Normal
    /\ active_panel = "Todos"
    /\ IF project_state # None /\ todo_state # None
       THEN LET p == Unwrap(project_state)
                t == Unwrap(todo_state)
            IN  IF p >= Len(projects)
                THEN Panic(IndexOutOfBounds)
                ELSE IF t < Len(projects[p + 1].todos)
                     THEN LET left == RemoveAt(projects[p + 1].todos, t)
                          IN  /\ projects' =
                                     [projects EXCEPT ![p + 1].todos = left]
                              /\ todo_state' =
                                     IF Len(left) = 0 THEN None
                                     ELSE IF t >= Len(left)
                                          THEN Some(Len(left) - 1)
                                     ELSE todo_state
                              /\ persisted' = save_data(projects')
                              /\ UNCHANGED <<project_state, active_panel,
                                             input_mode, input>>
                              /\ Env
                     ELSE Ignored
       ELSE Ignored

\* any other key in Normal mode
KeyOtherNormal ==
    /\ Normal
    /\ Ignored

----------------------------------------------------------------------------
(* Text-entry modes *)

TextEntry == Running /\ input_mode # "Normal"

\* mutant of EnterAddingProject: the mode is reset only when a project is made
EnterAddingProject_keeps_mode ==
    /\ Running
    /\ input_mode = "AddingProject"
    /\ input # << >> => Len(projects) < MaxProjects
    /\ IF input # << >>
       THEN /\ projects' = Append(projects, [name |-> input, todos |-> << >>])
            /\ project_state' = Some(Len(projects') - 1)
            /\ todo_state' = None
            /\ input' = << >>
            /\ persisted' = save_data(projects')
            /\ input_mode' = "Normal"
       ELSE UNCHANGED <<projects, project_state, todo_state, input, persisted,
                        input_mode>>
    /\ UNCHANGED active_panel
    /\ Env

\* Enter in AddingProject
EnterAddingProject ==
    /\ Running
    /\ input_mode = "AddingProject"
    /\ input # << >> => Len(projects) < MaxProjects
    /\ IF input # << >>
       THEN /\ projects' = Append(projects, [name |-> input, todos |-> << >>])
            /\ project_state' = Some(Len(projects') - 1)
            /\ todo_state' = None
            /\ input' = << >>
            /\ persisted' = save_data(projects')
       ELSE UNCHANGED <<projects, project_state, todo_state, input, persisted>>
    /\ input_mode' = "Normal"
    /\ UNCHANGED active_panel
    /\ Env

\* Enter in AddingTodo
EnterAddingTodo ==
    /\ Running
    /\ input_mode = "AddingTodo"
    /\ ( /\ input # << >>
         /\ project_state # None
         /\ Unwrap(project_state) < Len(projects) ) =>
            CountTodos(projects) < MaxTodos     \* where a todo is appended
    /\ IF input # << >> /\ project_state # None
             /\ Unwrap(project_state) >= Len(projects)
       THEN Panic(IndexOutOfBounds)
       ELSE /\ IF input # << >>
               THEN /\ IF project_state # None
                       THEN LET p == Unwrap(project_state)
                            IN  /\ projects' =
                                      [projects EXCEPT ![p + 1].todos =
                                          Append(@, Todo_new(input))]
                                /\ todo_state' =
                                      Some(Len(projects'[p + 1].todos) - 1)
                                /\ persisted' = save_data(projects')
                       ELSE UNCHANGED <<projects, todo_state, persisted>>
                    /\ input' = << >>
               ELSE UNCHANGED <<projects, todo_state, persisted, input>>
            /\ input_mode' = "Normal"
            /\ UNCHANGED <<project_state, active_panel>>
            /\ Env

\* mutant of EnterRenamingProject: the buffer is committed empty or not
EnterRenamingProject_commits_empty ==
    /\ Running
    /\ input_mode = "RenamingProject"
    /\ IF project_state # None /\ Unwrap(project_state) >= Len(projects)
       THEN Panic(IndexOutOfBounds)
       ELSE /\ IF project_state # None
               THEN /\ projects' =
                          [projects EXCEPT
                             ![Unwrap(project_state) + 1].name = input]
                    /\ persisted' = save_data(projects')
               ELSE UNCHANGED <<projects, persisted>>
            /\ input' = << >>
            /\ input_mode' = "Normal"
            /\ UNCHANGED <<project_state, todo_state, active_panel>>
            /\ Env

\* Enter in RenamingProject
EnterRenamingProject ==
    /\ Running
    /\ input_mode = "RenamingProject"
    /\ IF input # << >> /\ project_state # None
             /\ Unwrap(project_state) >= Len(projects)
       THEN Panic(IndexOutOfBounds)
       ELSE /\ IF input # << >>
               THEN /\ IF project_state # None
                       THEN /\ projects' =
                                  [projects EXCEPT
                                     ![Unwrap(project_state) + 1].name = input]
                            /\ persisted' = save_data(projects')
                       ELSE UNCHANGED <<projects, persisted>>
                    /\ input' = << >>
               ELSE UNCHANGED <<projects, persisted, input>>
            /\ input_mode' = "Normal"
            /\ UNCHANGED <<project_state, todo_state, active_panel>>
            /\ Env

\* Enter in RenamingTodo
EnterRenamingTodo ==
    /\ Running
    /\ input_mode = "RenamingTodo"
    /\ IF input # << >> /\ project_state # None /\ todo_state # None
             /\ todo_index_panics(Unwrap(project_state), Unwrap(todo_state))
       THEN Panic(IndexOutOfBounds)
       ELSE /\ IF input # << >>
               THEN /\ IF project_state # None /\ todo_state # None
                       THEN /\ projects' =
                                  [projects EXCEPT
                                     ![Unwrap(project_state) + 1]
                                        .todos[Unwrap(todo_state) + 1]
                                        .title = input]
                            /\ persisted' = save_data(projects')
                       ELSE UNCHANGED <<projects, persisted>>
                    /\ input' = << >>
               ELSE UNCHANGED <<projects, persisted, input>>
            /\ input_mode' = "Normal"
            /\ UNCHANGED <<project_state, todo_state, active_panel>>
            /\ Env

\* mutant of TextChar: the character also acts as the switch-panel command
TextChar_switches_panel(c) ==
    /\ TextEntry
    /\ Len(input) < MaxInput
    /\ input' = Append(input, c)
    /\ active_panel' = IF active_panel = "Projects" THEN "Todos" ELSE "Projects"
    /\ UNCHANGED <<projects, project_state, todo_state, input_mode, persisted>>
    /\ Env

\* KeyCode::Char(c) in a text-entry mode: push c
TextChar(c) ==
    /\ TextEntry
    /\ Len(input) < MaxInput
    /\ input' = Append(input, c)
    /\ UNCHANGED <<projects, project_state, todo_state, active_panel,
                   input_mode, persisted>>
    /\ Env

\* Backspace in a text-entry mode: pop
TextBackspace ==
    /\ TextEntry
    /\ input' = IF input = << >> THEN << >> ELSE SubSeq(input, 1, Len(input) - 1)
    /\ UNCHANGED <<projects, project_state, todo_state, active_panel,
                   input_mode, persisted>>
    /\ Env

\* mutant of TextEsc: leaving the mode also drops the todo selection
TextEsc_drops_selection ==
    /\ TextEntry
    /\ input_mode' = "Normal"
    /\ todo_state' = None
    /\ UNCHANGED <<projects, project_state, active_panel, input, persisted>>
    /\ Env

\* Esc in a text-entry mode: back to Normal, the buffer is left as it is
TextEsc ==
    /\ TextEntry
    /\ input_mode' = "Normal"
    /\ UNCHANGED <<projects, project_state, todo_state, active_panel,
                   input, persisted>>
    /\ Env

\* any other key in a text-entry mode
KeyOtherText ==
    /\ TextEntry
    /\ Ignored

----------------------------------------------------------------------------
(* The view: ui, drawn at the top of every turn of the loop *)

\* Constraint::Percentage(p) of n cells
Percentage(p, n) == (p * n) \div 100

\* the two chunks of the layout.  Below 80 columns the split is vertical,
\* 40% over 60%, and both chunks are as wide as the terminal; from 120
\* columns it is horizontal, 30% beside 70%; between the two it is
\* horizontal with Min(25) beside Min(40), written here with the least
\* width of the left chunk (ui tests the widths against 20, 10 and 30 only,
\* and both chunks are wider than that however the rest is shared)
chunks ==
    LET w == terminal.width
        h == terminal.height
    IN  IF w < 80
        THEN << [width |-> w, height |-> Percentage(40, h)],
                [width |-> w, height |-> h - Percentage(40, h)] >>
        ELSE IF w < 120
        THEN << [width |-> 25, height |-> h],
                [width |-> w - 25, height |-> h] >>
        ELSE << [width |-> Percentage(30, w), height |-> h],
                [width |-> w - Percentage(30, w), height |-> h] >>

\* no panic
Fine == ""

\* the closure of ui over the projects, for one project: the message of its
\* panic, or Fine
project_item(project) ==
    LET width == chunks[1].width
        len == ByteLen(project.name)
    IN  IF width < 20
        THEN IF width < 5 /\ overflow_checks
             THEN SubtractOverflow          \* chunks[0].width as usize - 5
             ELSE IF len > WrappingSub(width, 5)
             THEN IF width < 8 /\ overflow_checks
                  THEN SubtractOverflow     \* chunks[0].width as usize - 8
                  ELSE LET cut == WrappingSub(width, 8)
                           end == IF len < cut THEN len ELSE cut
                       IN  IF is_char_boundary(project.name, end)
                           THEN Fine
                           ELSE NotCharBoundary   \* &project.name[..end]
             ELSE Fine
        ELSE Fine

\* the closure of ui over the todos, for one todo
todo_item(todo) ==
    LET width == chunks[2].width
    IN  IF width < 30
        THEN IF width < 12 /\ overflow_checks
             THEN SubtractOverflow          \* chunks[1].width as usize - 12
             ELSE LET max_len == WrappingSub(width, 12)
                  IN  IF ByteLen(todo.title) > max_len
                      THEN IF is_char_boundary(todo.title, max_len)
                           THEN Fine
                           ELSE NotCharBoundary   \* &todo.title[..max_len]
                      ELSE Fine
        ELSE Fine

\* map(..).collect() runs the closure over the items in order: the panic of
\* the first item that has one
FirstPanic(outcomes) ==
    IF \E k \in 1 .. Len(outcomes) : outcomes[k] # Fine
    THEN outcomes[CHOOSE k \in 1 .. Len(outcomes) :
                     /\ outcomes[k] # Fine
                     /\ \A j \in 1 .. (k - 1) : outcomes[j] = Fine]
    ELSE Fine

\* what is inside a Block with Borders::ALL: one cell less on every side
HasInner(area) == area.width > 2 /\ area.height > 2

\* List::render with the ListState by &mut: nothing is done where the block
\* leaves no room; the selection of an empty list is set to None; a
\* selection past the end is moved to the last item
ListRender(len, area, selected) ==
    IF ~HasInner(area) THEN selected
    ELSE IF len = 0 THEN None
    ELSE IF selected # None /\ Unwrap(selected) >= len THEN Some(len - 1)
    ELSE selected

\* centered_rect computes (r.height - height) / 2 in u16 with height = 3
popup_overflows == terminal.height < 3

\* ui: the draw of one turn
ui ==
    /\ status = "running"
    /\ pc = "draw"
    /\ LET project_items ==
               FirstPanic([k \in 1 .. Len(projects) |->
                              project_item(projects[k])])
           selected_project ==
               ListRender(Len(projects), chunks[1], project_state)
           todos_drawn == chunks[2].width > 10
           no_project ==
               /\ selected_project # None
               /\ Unwrap(selected_project) >= Len(projects)
           todos == IF selected_project # None
                    THEN projects[Unwrap(selected_project) + 1].todos
                    ELSE << >>
           todo_items ==
               FirstPanic([k \in 1 .. Len(todos) |-> todo_item(todos[k])])
       IN  IF project_items # Fine
           THEN Panic(project_items)
           ELSE IF todos_drawn /\ no_project
           THEN Panic(IndexOutOfBounds)     \* get_current_todos
           ELSE IF todos_drawn /\ todo_items # Fine
           THEN Panic(todo_items)
           ELSE IF input_mode # "Normal" /\ popup_overflows /\ overflow_checks
           THEN Panic(SubtractOverflow)
           ELSE /\ project_state' = selected_project
                /\ todo_state' =
                       IF todos_drawn
                       THEN ListRender(Len(todos), chunks[2], todo_state)
                       ELSE todo_state
                /\ pc' = "read"
                /\ UNCHANGED <<projects, active_panel, input_mode, input,
                               persisted, clock, overflow_checks, terminal,
                               status>>

\* an event that is not a key (the mouse, a resize to the same size): the
\* loop goes round
EventNotKey ==
    /\ Running
    /\ Ignored

----------------------------------------------------------------------------
(* The wall clock *)

\* time passes
ClockAdvance ==
    /\ status = "running"
    /\ \E t \in (clock + 1) .. MaxClock : clock' = t
    /\ UNCHANGED <<app_vars, overflow_checks, terminal, pc, status>>

\* the system clock is set back (SystemTime is not monotonic)
ClockSetBack ==
    /\ status = "running"
    /\ \E t \in 0 .. (clock - 1) : clock' = t
    /\ UNCHANGED <<app_vars, overflow_checks, terminal, pc, status>>

----------------------------------------------------------------------------
(* Start: App::new over what load_data returns *)

\* titles and names a data file holds
LoadedNames == {<<"q">>}

\* todos a data file holds
LoadedTodos == {Todo_new(n) : n \in LoadedNames}

SeqsUpTo(S, n) == UNION {[1 .. k -> S] : k \in 0 .. n}

LoadedProjectLists ==
    {ps \in SeqsUpTo([name : LoadedNames, todos : SeqsUpTo(LoadedTodos, MaxTodos)],
                     MaxProjects) :
        CountTodos(ps) <= MaxTodos}

\* App::new: select the first project and todo index 0 when projects exist
AppNew(loaded) ==
    /\ projects = loaded
    /\ project_state = IF loaded # << >> THEN Some(0) ELSE None
    /\ todo_state = IF loaded # << >> THEN Some(0) ELSE None
    /\ active_panel = "Projects"
    /\ input_mode = "Normal"
    /\ input = << >>

\* load_data where the data file is read and parsed
LoadedFile ==
    \E ps \in LoadedProjectLists :
       /\ persisted = [ok |-> TRUE, projects |-> ps]
       /\ AppNew(ps)

\* load_data where it is not: the built-in data
BuiltIn ==
    /\ persisted = [ok |-> FALSE, projects |-> << >>]
    /\ AppNew(DefaultProjects)

\* load_data: the parsed file, or the built-in data when it cannot be read
Load == LoadedFile \/ BuiltIn

\* no toggle_work pair is followed
NoPair ==
    [open |-> FALSE, before |-> Todo_new(<< >>), t1 |-> 0, base |-> 0,
     sum |-> 0]

\* no Enter or Esc has been handled
NoKey == [key |-> "", mode |-> "", empty |-> FALSE]

\* terminal sizes: wide with room for both lists; 20 columns, where titles
\* are cut; 10 columns, where names are cut and the todos are not drawn; 4
\* columns; and 10 columns by 5 rows, where the block of the project list
\* has no room inside
Wide == [width |-> 120, height |-> 30]

Cut == [width |-> 20, height |-> 30]

Narrow == [width |-> 10, height |-> 30]

Sliver == [width |-> 4, height |-> 30]

Cramped == [width |-> 10, height |-> 5]

Terminals == {Wide, Cut, Narrow, Sliver, Cramped}

\* the process starts in a terminal of one of the sizes, before the first
\* draw
StartOn(sizes) ==
    /\ clock = 0
    /\ overflow_checks \in BOOLEAN
    /\ terminal \in sizes
    /\ pc = "draw"
    /\ status = "running"
    /\ last_key = NoKey
    /\ result = None

Start == StartOn(Terminals)

\* a session over a data file.  (Sessions over the built-in data are those
\* of SpecAddDelete and SpecRename, where fewer keys are taken.  With short
\* names of one-byte characters a terminal of Cut's size draws what Wide
\* draws, and Sliver's what Narrow draws unless it panics, so the three
\* other sizes are enough here.)
Init ==
    /\ LoadedFile
    /\ StartOn({Wide, Narrow, Cramped})
    /\ pair = NoPair

\* a session over a data file or the built-in data, in any of the terminals
InitLoad ==
    /\ Load
    /\ Start
    /\ pair = NoPair

\* the event loop with the clock standing still: every key, in every mode
Next ==
    \/ ui /\ UNCHANGED hist
    \/ KeyQuit /\ UNCHANGED hist
    \/ KeySave /\ UNCHANGED hist
    \/ KeyTab /\ UNCHANGED hist
    \/ KeyDownProjects /\ UNCHANGED hist
    \/ KeyDownTodos /\ UNCHANGED hist
    \/ KeyUpProjects /\ UNCHANGED hist
    \/ KeyUpTodos /\ UNCHANGED hist
    \/ KeySpace /\ UNCHANGED hist
    \/ KeyAdd /\ UNCHANGED hist
    \/ KeyTimer /\ UNCHANGED hist
    \/ KeyRename /\ UNCHANGED hist
    \/ KeyDeleteProject /\ UNCHANGED hist
    \/ KeyDeleteTodo /\ UNCHANGED hist
    \/ KeyOtherNormal /\ UNCHANGED hist
    \/ EnterAddingProject /\ UNCHANGED hist
    \/ EnterAddingTodo /\ UNCHANGED hist
    \/ EnterRenamingProject /\ UNCHANGED hist
    \/ EnterRenamingTodo /\ UNCHANGED hist
    \/ (\E c \in Chars : TextChar(c)) /\ UNCHANGED hist
    \/ TextBackspace /\ UNCHANGED hist
    \/ TextEsc /\ UNCHANGED hist
    \/ KeyOtherText /\ UNCHANGED hist
    \/ EventNotKey /\ UNCHANGED hist

Spec == Init /\ [][Next]_vars

----------------------------------------------------------------------------
(* Adding and deleting only *)

NextAddDelete ==
    \/ ui /\ UNCHANGED hist
    \/ KeyTab /\ UNCHANGED hist
    \/ KeyAdd /\ UNCHANGED hist
    \/ EnterAddingProject /\ UNCHANGED hist
    \/ EnterAddingTodo /\ UNCHANGED hist
    \/ (\E c \in Chars : TextChar(c)) /\ UNCHANGED hist
    \/ TextBackspace /\ UNCHANGED hist
    \/ TextEsc /\ UNCHANGED hist
    \/ KeyDeleteProject /\ UNCHANGED hist
    \/ KeyDeleteTodo /\ UNCHANGED hist

SpecAddDelete == InitLoad /\ [][NextAddDelete]_vars

----------------------------------------------------------------------------
(* Selection *)

\* the todos of the selected project; none when no project is selected or
\* the selection points outside the list
SelectedTodos(ps, psel) ==
    IF psel # None /\ Unwrap(psel) < Len(ps)
    THEN ps[Unwrap(psel) + 1].todos
    ELSE << >>

ProjectInBounds ==
    project_state = None \/ Unwrap(project_state) < Len(projects)

TodoInBounds ==
    \/ todo_state = None
    \/ Unwrap(todo_state) < Len(SelectedTodos(projects, project_state))

\* C1: no handler indexes a project or todo out of range or underflows an
\* index computation: the process never ends, in the handling of a key, in
\* an index-out-of-bounds panic or in the overflow panic of
\* projects.len() - 1.
C1_NoIndexPanic ==
    pc = "read" => status \notin {IndexOutOfBounds, SubtractOverflow}

\* C2: after any sequence of add-project, add-todo, delete-project and
\* delete-todo actions from the initial state, the selected project index is
\* None or in range and the selected todo index is None or in range of the
\* selected project's todos (looked at where the loop waits for the next
\* key, the frame drawn).
C2_SelectionInBoundsAfterAddDelete ==
    Running => ProjectInBounds /\ TodoInBounds

\* C3: in every reachable state selected_project is None iff the project
\* list is empty, and otherwise lies in [0, len(projects)) (looked at where
\* the loop waits for the next key, the frame drawn).
C3_ProjectSelectionInvariant ==
    Running =>
        /\ (project_state = None) <=> (projects = << >>)
        /\ ProjectInBounds

\* C4: in every reachable state, the initial one included, selected_todo is
\* None iff the selected project has no todos, and otherwise lies in
\* [0, len(todos of the selected project)) (looked at where the loop waits
\* for the next key, the first included: the frame has been drawn).
C4_TodoSelectionInvariant ==
    Running =>
        /\ (todo_state = None) <=>
               (SelectedTodos(projects, project_state) = << >>)
        /\ TodoInBounds

\* C5: whenever an up or down key on the Projects panel changes the selected
\* project (to a project of the list), the todo selection afterwards is index
\* 0 if the newly selected project has todos and None if it has none.
C5_ProjectChangeResetsTodo ==
    [][ ( /\ KeyDownProjects \/ KeyUpProjects
          /\ status' = "running"
          /\ project_state' # project_state
          /\ Unwrap(project_state') < Len(projects') )
        => todo_state' =
              IF SelectedTodos(projects', project_state') # << >>
              THEN Some(0)
              ELSE None ]_vars

----------------------------------------------------------------------------
(* Delete *)

\* s with the element of 0-based index i taken out, the others in order
IsRemovalAt(s, t, i) ==
    /\ Len(t) = Len(s) - 1
    /\ \A k \in 1 .. Len(t) : t[k] = IF k <= i THEN s[k] ELSE s[k + 1]

\* the selection the claim gives after deleting index i of n items
SelectionAfterDelete(i, n) ==
    IF n = 1 THEN None
    ELSE IF i = n - 1 THEN Some(n - 2)
    ELSE Some(i)

DeleteProjectCase ==
    /\ KeyDeleteProject
    /\ project_state # None
    /\ Unwrap(project_state) < Len(projects)

DeleteTodoCase ==
    /\ KeyDeleteTodo
    /\ project_state # None
    /\ todo_state # None
    /\ Unwrap(project_state) < Len(projects)
    /\ Unwrap(todo_state) < Len(projects[Unwrap(project_state) + 1].todos)

\* C6: the delete key with selected index i in a list of n items removes
\* exactly item i, keeps the order of the others, and leaves the selection
\* None if n = 1, n - 2 if i = n - 1 and n > 1, and i otherwise (which now
\* refers to the item that followed the deleted one).
C6_DeleteReindexes ==
    [][ /\ DeleteProjectCase =>
            LET i == Unwrap(project_state)
                n == Len(projects)
            IN  /\ status' = "running"
                /\ IsRemovalAt(projects, projects', i)
                /\ project_state' = SelectionAfterDelete(i, n)
        /\ DeleteTodoCase =>
            LET p == Unwrap(project_state)
                i == Unwrap(todo_state)
                n == Len(projects[p + 1].todos)
            IN  /\ status' = "running"
                /\ Len(projects') = Len(projects)
                /\ \A k \in 1 .. Len(projects) :
                       /\ projects'[k].name = projects[k].name
                       /\ k # p + 1 => projects'[k] = projects[k]
                /\ IsRemovalAt(projects[p + 1].todos, projects'[p + 1].todos, i)
                /\ todo_state' = SelectionAfterDelete(i, n)
                /\ project_state' = project_state ]_vars

\* C6 witness: the delete key has just been handled on the todos panel of
\* the first of three projects, whose todos were the first three numbered
\* ones: the second is gone, the first and the third are left in that order,
\* and the selection is still index 1, now on the todo that followed
C6_Witness_DeletedMiddleTodo ==
    /\ status = "running"
    /\ pc = "draw"
    /\ last_key.key = "d"
    /\ active_panel = "Todos"
    /\ Len(projects) = 3
    /\ project_state = Some(0)
    /\ projects[1].todos =
          << Todo_new(<<"q">>), Todo_new(<<"q", "q", "q">>) >>
    /\ todo_state = Some(1)
    /\ persisted = [ok |-> TRUE, projects |-> projects]

----------------------------------------------------------------------------
(* Persistence *)

InSync == persisted.ok /\ persisted.projects = projects

\* C7: every key event that changes the project/todo data ends with a save
\* in the same turn, so once the data has changed (or was in step with the
\* file), the file equals the in-memory list whenever the loop waits for the
\* next event.
C7_ChangeIsSaved ==
    [][ (projects' # projects \/ InSync) => InSync' ]_vars

\* C7 witness: a timer toggle has changed the data (loaded todos have no
\* open session) and the file holds the changed list
C7_Witness_SavedAfterTimer ==
    /\ status = "running"
    /\ InSync
    /\ \E p \in 1 .. Len(projects) :
          \E t \in 1 .. Len(projects[p].todos) :
             is_working(projects[p].todos[t])

----------------------------------------------------------------------------
(* Timers: the Todos panel with the clock moving, set back included *)

\* data files in which every project has a todo
LoadedWithTodos ==
    {ps \in LoadedProjectLists :
        ps # << >> /\ \A k \in 1 .. Len(ps) : ps[k].todos # << >>}

InitTimer ==
    /\ \E ps \in LoadedWithTodos :
          /\ persisted = [ok |-> TRUE, projects |-> ps]
          /\ AppNew(ps)
    /\ StartOn({Wide, Narrow})
    /\ pair = NoPair

NextTimer ==
    \/ ui /\ UNCHANGED hist
    \/ KeyTab /\ UNCHANGED hist
    \/ KeyDownTodos /\ UNCHANGED hist
    \/ KeyUpTodos /\ UNCHANGED hist
    \/ KeySpace /\ UNCHANGED hist
    \/ KeyTimer /\ UNCHANGED hist
    \/ ClockAdvance /\ UNCHANGED hist
    \/ ClockSetBack /\ UNCHANGED hist

SpecTimer == InitTimer /\ [][NextTimer]_vars

\* the todo the selection points at, before and after the step
CurrentTodo == projects[Unwrap(project_state) + 1].todos[Unwrap(todo_state) + 1]

CurrentTodoAfter ==
    projects'[Unwrap(project_state) + 1].todos[Unwrap(todo_state) + 1]

\* C8: toggle-complete on the Todos panel while the selected todo is working
\* and not completed leaves it completed and not working, with end_time the
\* current time and total_duration grown by exactly now - start_time.
C8_CompleteStopsTimer ==
    [][ ( /\ KeySpace
          /\ active_panel = "Todos"
          /\ has_current_todo
          /\ is_working(CurrentTodo)
          /\ ~CurrentTodo.completed )
        => /\ status' = "running"
           /\ CurrentTodoAfter.completed
           /\ ~is_working(CurrentTodoAfter)
           /\ CurrentTodoAfter.end_time = Some(clock)
           /\ CurrentTodoAfter.total_duration >= CurrentTodo.total_duration
           /\ CurrentTodoAfter.total_duration =
                 CurrentTodo.total_duration
                    + (clock - Unwrap(CurrentTodo.start_time)) ]_vars

\* C9: over every sequence of key events and clock readings no todo's
\* total_duration decreases, and it changes only in a step that closes an
\* open session, where it grows by the session's length.
C9_TotalOnlyGrowsBySessions ==
    [][ \A p \in 1 .. Len(projects) :
          \A t \in 1 .. Len(projects[p].todos) :
             LET old == projects[p].todos[t]
                 new == projects'[p].todos[t]
             IN  /\ new.total_duration >= old.total_duration
                 /\ new.total_duration # old.total_duration =>
                       /\ is_working(old)
                       /\ ~is_working(new)
                       /\ new.total_duration =
                             old.total_duration
                                + (clock - Unwrap(old.start_time)) ]_vars

----------------------------------------------------------------------------
(* toggle_work in pairs, on one todo, under a clock that does not go back *)

\* todos of a data file that are not working: never started, or stopped
StoppedTodos ==
    {[title |-> <<"q">>, description |-> << >>, completed |-> c,
      start_time |-> se, end_time |-> se, total_duration |-> d] :
        c \in BOOLEAN, se \in {None, Some(0)}, d \in 0 .. 1}

InitTodo ==
    /\ \E td \in StoppedTodos :
          LET ps == << [name |-> <<"q">>, todos |-> <<td>>] >>
          IN  /\ persisted = [ok |-> TRUE, projects |-> ps]
              /\ AppNew(ps)
              /\ pair = [open |-> FALSE, before |-> td, t1 |-> 0,
                          base |-> td.total_duration, sum |-> 0]
    /\ Start

\* 't', with the pair it opens or closes written down
TodoToggle ==
    /\ KeyTimer
    /\ IF active_panel = "Todos" /\ has_current_todo /\ status' = "running"
       THEN IF pair.open
            THEN pair' = [pair EXCEPT !.open = FALSE,
                                      !.sum = @ + (clock - pair.t1)]
            ELSE pair' = [pair EXCEPT !.open = TRUE,
                                      !.before = CurrentTodo,
                                      !.t1 = clock]
       ELSE UNCHANGED pair
    /\ UNCHANGED <<last_key, result>>

NextTodo ==
    \/ ui /\ UNCHANGED hist
    \/ KeyTab /\ UNCHANGED hist
    \/ TodoToggle
    \/ ClockAdvance /\ UNCHANGED hist

SpecTodo == InitTodo /\ [][NextTodo]_vars

TheTodo == projects[1].todos[1]

\* C10: two toggle_work calls on a todo that is not working, at readings
\* t1 <= t2, have the effect of start_work at t1 then end_work at t2: the
\* todo is not working and total_duration has grown by exactly t2 - t1; and
\* after any number of pairs total_duration is what it was plus the sum of
\* the completed session lengths.
C10_TogglePairIsOneSession ==
    /\ [][ (pair.open /\ ~pair'.open) =>
             LET after == projects'[1].todos[1]
             IN  /\ pair.t1 <= clock
                 /\ after = end_work(start_work(pair.before, pair.t1), clock)
                 /\ ~is_working(after)
                 /\ after.total_duration =
                       pair.before.total_duration + (clock - pair.t1) ]_vars
    /\ [](~pair.open =>
             /\ ~is_working(TheTodo)
             /\ TheTodo.total_duration = pair.base + pair.sum)

\* C10 witness: two pairs are complete, the second a session of non-zero
\* length
C10_Witness_TwoSessions ==
    /\ ~pair.open
    /\ pair.sum > pair.t1
    /\ pair.t1 > 0
    /\ TheTodo.end_time = Some(clock)
    /\ clock > pair.t1

----------------------------------------------------------------------------
(* format_duration on its own, over totals of every shape *)

\* largest count of each unit in the totals tried
MaxUnit == 2

\* the totals the specification gives as examples
ExampleTotals == {0, 45, 125, 3665, 90000, 2700000}

\* totals with every combination of months, days, hours, minutes, seconds
\* (format_duration does no arithmetic that can overflow, so the totals are
\* real numbers of seconds, not values of the scaled-down word)
Totals ==
    ExampleTotals \cup
    {mo * SecondsPerMonth + d * SecondsPerDay + h * SecondsPerHour
        + m * SecondsPerMinute + s :
        mo \in 0 .. MaxUnit, d \in 0 .. MaxUnit, h \in 0 .. MaxUnit,
        m \in 0 .. MaxUnit, s \in 0 .. MaxUnit}

InitFormat ==
    /\ \E total \in Totals :
          LET td == [Todo_new(<<"q">>) EXCEPT !.total_duration = total]
              ps == << [name |-> <<"q">>, todos |-> <<td>>] >>
          IN  /\ persisted = [ok |-> TRUE, projects |-> ps]
              /\ AppNew(ps)
    /\ StartOn({Wide})
    /\ pair = NoPair

\* todo.format_duration() is called on the todo
CallFormatDuration ==
    /\ result = None
    /\ result' = Some(format_duration(TheTodo))
    /\ UNCHANGED <<prog_vars, pair, last_key>>

NextFormat ==
    \/ CallFormatDuration

SpecFormat == InitFormat /\ [][NextFormat]_vars

\* the most significant non-zero unit of the month/day/hour/minute/second
\* decomposition of a total, as a label component
LeadingComponent(total) ==
    LET months == total \div SecondsPerMonth
        days == (total % SecondsPerMonth) \div SecondsPerDay
        hours == (total % SecondsPerDay) \div SecondsPerHour
        minutes == (total % SecondsPerHour) \div SecondsPerMinute
        seconds == total % SecondsPerMinute
    IN  IF months > 0 THEN Component(months, "mo")
        ELSE IF days > 0 THEN Component(days, "d")
        ELSE IF hours > 0 THEN Component(hours, "h")
        ELSE IF minutes > 0 THEN Component(minutes, "m")
        ELSE Component(seconds, "s")

\* every label that starts with the leading component of the total and has
\* at most one more component
LabelsOfAtMostTwo(total) ==
    LET lead == LeadingComponent(total)
    IN  {lead} \cup
        {lead \o " " \o Component(n, u) :
            n \in 1 .. 59, u \in {"d", "h", "m", "s"}}

\* C11: format_duration returns the empty string exactly when the total is
\* 0, and otherwise a label whose first component is the most significant
\* non-zero unit and that has at most two components.
C11_LabelHasAtMostTwoUnits ==
    result # None =>
        LET total == TheTodo.total_duration
        IN  /\ (Unwrap(result) = "") <=> (total = 0)
            /\ total # 0 => Unwrap(result) \in LabelsOfAtMostTwo(total)

\* the label the specification gives for each of its example totals
ExampleLabel(total) ==
    CASE total = 0 -> ""
      [] total = 45 -> "45s"
      [] total = 125 -> "2m 5s"
      [] total = 3665 -> "1h 1m"
      [] total = 90000 -> "1d 1h"
      [] total = 2700000 -> "1mo 1d"

\* C12: format_duration maps 0 to "", 45 to "45s", 125 to "2m 5s", 3665 to
\* "1h 1m", 90000 to "1d 1h" and 2700000 to "1mo 1d".
C12_ExampleLabels ==
    (result # None /\ TheTodo.total_duration \in ExampleTotals) =>
        Unwrap(result) = ExampleLabel(TheTodo.total_duration)

----------------------------------------------------------------------------
(* Every key but the timer key, with the Enter or Esc just handled written *)
(* down                                                                    *)

\* a key a claim asks about is handled: the key, the mode it was handled in
\* and whether the buffer was empty
Record(key) ==
    /\ last_key' = [key |-> key, mode |-> input_mode, empty |-> input = << >>]
    /\ UNCHANGED <<pair, result>>

\* any other key is handled
Forget ==
    /\ last_key' = NoKey
    /\ UNCHANGED <<pair, result>>

NextText ==
    \/ ui /\ UNCHANGED hist
    \/ KeyQuit /\ Forget
    \/ KeySave /\ Forget
    \/ KeyTab /\ Forget
    \/ KeyDownProjects /\ Forget
    \/ KeyDownTodos /\ Forget
    \/ KeyUpProjects /\ Forget
    \/ KeyUpTodos /\ Forget
    \/ KeySpace /\ Forget
    \/ KeyAdd /\ Forget
    \/ KeyRename /\ Forget
    \/ KeyDeleteProject /\ Forget
    \/ KeyDeleteTodo /\ Forget
    \/ KeyOtherNormal /\ Forget
    \/ EnterAddingProject /\ Record("Enter")
    \/ EnterAddingTodo /\ Record("Enter")
    \/ EnterRenamingProject /\ Record("Enter")
    \/ EnterRenamingTodo /\ Record("Enter")
    \/ (\E c \in Chars : TextChar(c)) /\ Forget
    \/ TextBackspace /\ Forget
    \/ TextEsc /\ Record("Esc")
    \/ KeyOtherText /\ Forget
    \/ EventNotKey /\ Forget

SpecText == Init /\ [][NextText]_vars

\* the todo a title is made into, as the claim describes it
FreshTodo(title) ==
    [title |-> title, description |-> << >>, completed |-> FALSE,
     start_time |-> None, end_time |-> None, total_duration |-> 0]

\* C13: Enter with a non-empty buffer in AddingProject appends one project
\* with that name and no todos and selects it; Enter with a non-empty buffer
\* in AddingTodo with a project selected appends one fresh todo to the
\* selected project and selects it.  No other project or todo is changed.
C13_EnterAppendsAndSelects ==
    [][ /\ (EnterAddingProject /\ input # << >>) =>
              /\ status' = "running"
              /\ projects' = Append(projects, [name |-> input, todos |-> << >>])
              /\ project_state' = Some(Len(projects') - 1)
        /\ (EnterAddingTodo /\ input # << >> /\ project_state # None) =>
              LET p == Unwrap(project_state)
              IN  /\ status' = "running"
                  /\ p < Len(projects)
                  /\ Len(projects') = Len(projects)
                  /\ \A k \in 1 .. Len(projects) :
                        k # p + 1 => projects'[k] = projects[k]
                  /\ projects'[p + 1].name = projects[p + 1].name
                  /\ projects'[p + 1].todos =
                        Append(projects[p + 1].todos, FreshTodo(input))
                  /\ project_state' = project_state
                  /\ todo_state' = Some(Len(projects'[p + 1].todos) - 1) ]_vars

\* C13 witness: Enter in AddingTodo with a typed title has just been handled
\* and the new todo is the second of its project, and selected
C13_Witness_SecondTodoAdded ==
    /\ status = "running"
    /\ last_key = [key |-> "Enter", mode |-> "AddingTodo", empty |-> FALSE]
    /\ todo_state = Some(1)
    /\ Len(SelectedTodos(projects, project_state)) = 2
    /\ SelectedTodos(projects, project_state)[2].title = <<"q", "q">>

AnyEnter ==
    \/ EnterAddingProject
    \/ EnterAddingTodo
    \/ EnterRenamingProject
    \/ EnterRenamingTodo

\* C14: Enter in any text-entry mode leaves the mode Normal and the buffer
\* empty; when the buffer was empty at Enter, the project list, the
\* selection and the persisted data are unchanged.
C14_EnterLeavesModeAndClearsBuffer ==
    [][ AnyEnter =>
          /\ status' = "running"
          /\ input_mode' = "Normal"
          /\ input' = << >>
          /\ input = << >> =>
                UNCHANGED <<projects, project_state, todo_state, persisted>>
      ]_vars

\* C14 witness: Enter on an emptied buffer in RenamingTodo has just been
\* handled, and the todo still has its title
C14_Witness_EmptyRenameEntered ==
    /\ status = "running"
    /\ last_key = [key |-> "Enter", mode |-> "RenamingTodo", empty |-> TRUE]
    /\ input_mode = "Normal"
    /\ input = << >>
    /\ SelectedTodos(projects, project_state)[Unwrap(todo_state) + 1].title
          = <<"q">>

\* C15: Escape in any text-entry mode returns the mode to Normal and leaves
\* the project list, the project and todo selection, the active panel and the
\* persisted data unchanged, whatever was typed.
C15_EscChangesOnlyTheMode ==
    [][ TextEsc =>
          /\ status' = "running"
          /\ input_mode' = "Normal"
          /\ UNCHANGED <<projects, project_state, todo_state, active_panel,
                         persisted>> ]_vars

\* C15 witness: Escape in RenamingProject has just been handled after the
\* name in the buffer was typed over, and the project keeps its name
C15_Witness_EscAfterTyping ==
    /\ status = "running"
    /\ last_key = [key |-> "Esc", mode |-> "RenamingProject", empty |-> FALSE]
    /\ input_mode = "Normal"
    /\ input = <<"q", "q">>
    /\ projects[Unwrap(project_state) + 1].name = <<"q">>

----------------------------------------------------------------------------
(* Leaving the event loop *)

\* C16: the session ends only by the quit key pressed in Normal mode, and
\* then the file equals the in-memory project list; the quit character typed
\* in a text-entry mode is appended to the buffer and the session goes on.
C16_EndsOnlyByQuitKey ==
    [][ /\ (status = "running" /\ status' # "running") =>
              /\ KeyQuit
              /\ input_mode = "Normal"
              /\ status' = "quit"
              /\ InSync'
        /\ (TextEntry /\ TextChar("q")) =>
              /\ status' = "running"
              /\ input_mode' = input_mode
              /\ input' = Append(input, "q") ]_vars

----------------------------------------------------------------------------
(* Moving the selection *)

\* C17: on the Projects panel with n > 0 projects and project i selected, the
\* down key selects (i + 1) mod n and the up key selects (i - 1) mod n; with
\* an empty project list (nothing selected) the keys change nothing.
C17_ProjectMoveIsCyclic ==
    [][ LET n == Len(projects)
            selected == project_state # None /\ Unwrap(project_state) < n
            i == Unwrap(project_state)
        IN  /\ (KeyDownProjects /\ selected) =>
                  /\ status' = "running"
                  /\ project_state' = Some((i + 1) % n)
            /\ (KeyUpProjects /\ selected) =>
                  /\ status' = "running"
                  /\ project_state' = Some((i + n - 1) % n)
            /\ ( /\ KeyDownProjects \/ KeyUpProjects
                 /\ n = 0
                 /\ project_state = None ) =>
                  /\ status' = "running"
                  /\ UNCHANGED <<projects, project_state, todo_state>> ]_vars

\* most todos of one project in the data files of SpecNav
MaxNavTodos == 3

\* data files of up to MaxProjects projects with up to MaxNavTodos todos each
NavProjectLists ==
    SeqsUpTo([name : LoadedNames, todos : SeqsUpTo(LoadedTodos, MaxNavTodos)],
             MaxProjects)

InitNav ==
    /\ \E ps \in NavProjectLists :
          /\ persisted = [ok |-> TRUE, projects |-> ps]
          /\ AppNew(ps)
    /\ Start
    /\ pair = NoPair

\* moving the selection on both panels, and deleting, with the delete key
\* just handled written down
NextNav ==
    \/ ui /\ UNCHANGED hist
    \/ KeyTab /\ Forget
    \/ KeyDownProjects /\ Forget
    \/ KeyUpProjects /\ Forget
    \/ KeyDownTodos /\ Forget
    \/ KeyUpTodos /\ Forget
    \/ KeyDeleteProject /\ Record("d")
    \/ KeyDeleteTodo /\ Record("d")

SpecNav == InitNav /\ [][NextNav]_vars

----------------------------------------------------------------------------
(* Deleting from lists whose items all differ *)

\* most projects of a data file of SpecDelete, and most todos of a project
MaxDeleteItems == 3

\* a string of k characters: the name of the k-th project and the title of
\* the k-th todo of a project, so that no two items of a list are equal
Numbered(k) == [i \in 1 .. k |-> "q"]

\* data files of up to MaxDeleteItems projects, named in order, each with up
\* to MaxDeleteItems todos, titled in order
DeleteProjectLists ==
    UNION { { [k \in 1 .. n |->
                 [name |-> Numbered(k),
                  todos |-> [j \in 1 .. count[k] |-> Todo_new(Numbered(j))]]] :
              count \in [1 .. n -> 0 .. MaxDeleteItems] } :
            n \in 0 .. MaxDeleteItems }

InitDelete ==
    /\ \E ps \in DeleteProjectLists :
          /\ persisted = [ok |-> TRUE, projects |-> ps]
          /\ AppNew(ps)
    /\ Start
    /\ pair = NoPair

SpecDelete == InitDelete /\ [][NextNav]_vars

----------------------------------------------------------------------------
(* Renaming only, from a data file or the built-in data *)

NextRename ==
    \/ ui /\ UNCHANGED hist
    \/ KeyTab /\ UNCHANGED hist
    \/ KeyRename /\ UNCHANGED hist
    \/ EnterRenamingProject /\ UNCHANGED hist
    \/ EnterRenamingTodo /\ UNCHANGED hist
    \/ (\E c \in Chars : TextChar(c)) /\ UNCHANGED hist
    \/ TextBackspace /\ UNCHANGED hist
    \/ TextEsc /\ UNCHANGED hist

SpecRename == InitLoad /\ [][NextRename]_vars

\* C18: on the Todos panel, where the selected project has n > 0 todos, the
\* down and up keys leave the selected todo index in [0, n), the cyclic
\* successor or predecessor of the index before; where it has no todos, or no
\* project is selected, they leave the todo selection unchanged.
C18_TodoMoveIsCyclic ==
    [][ LET n == Len(SelectedTodos(projects, project_state))
            t == Unwrap(todo_state)
        IN  /\ ( /\ KeyDownTodos \/ KeyUpTodos
                 /\ n > 0 ) =>
                  /\ status' = "running"
                  /\ todo_state' # None
                  /\ Unwrap(todo_state') < n
            /\ (KeyDownTodos /\ n > 0 /\ todo_state # None /\ t < n) =>
                  todo_state' = Some((t + 1) % n)
            /\ (KeyUpTodos /\ n > 0 /\ todo_state # None /\ t < n) =>
                  todo_state' = Some((t + n - 1) % n)
            /\ ( /\ KeyDownTodos \/ KeyUpTodos
                 /\ n = 0 ) =>
                  /\ status' = "running"
                  /\ todo_state' = todo_state ]_vars

\* C19: the switch-panel key in Normal mode always flips the active panel and
\* never changes the project/todo data; entering the Todos panel the todo
\* selection becomes 0 if it was None and the selected project has todos,
\* entering the Projects panel the project selection becomes 0 if it was
\* None and projects exist, and a selection already set is left as it was.
C19_TabFlipsPanel ==
    [][ KeyTab =>
          /\ status' = "running"
          /\ active_panel' # active_panel
          /\ UNCHANGED <<projects, persisted>>
          /\ active_panel = "Projects" =>
                /\ project_state' = project_state
                /\ todo_state' =
                      IF todo_state = None
                         /\ SelectedTodos(projects, project_state) # << >>
                      THEN Some(0)
                      ELSE todo_state
          /\ active_panel = "Todos" =>
                /\ todo_state' = todo_state
                /\ project_state' =
                      IF project_state = None /\ projects # << >>
                      THEN Some(0)
                      ELSE project_state ]_vars

----------------------------------------------------------------------------
(* end_work on its own, on a todo in any state of its timer fields *)

\* an Option<u64> clock reading
OptReadings == {None} \cup {Some(t) : t \in 0 .. MaxClock}

\* todos with every combination of start_time and end_time
AnyTodos ==
    {[title |-> <<"q">>, description |-> << >>, completed |-> FALSE,
      start_time |-> st, end_time |-> en, total_duration |-> d] :
        st \in OptReadings, en \in OptReadings, d \in 0 .. 1}

InitEndWork ==
    /\ \E td \in AnyTodos :
          LET ps == << [name |-> <<"q">>, todos |-> <<td>>] >>
          IN  /\ persisted = [ok |-> TRUE, projects |-> ps]
              /\ AppNew(ps)
    /\ StartOn({Wide})
    /\ pair = NoPair

\* todo.end_work() is called on the todo; result is the todo after the call
CallEndWork ==
    /\ status = "running"
    /\ result = None
    /\ IF overflow_checks /\ end_work_overflows(TheTodo, clock)
       THEN Panic(DurationOverflow) /\ UNCHANGED result
       ELSE /\ result' = Some(end_work(TheTodo, clock))
            /\ UNCHANGED prog_vars
    /\ UNCHANGED <<pair, last_key>>

NextEndWork ==
    \/ CallEndWork
    \/ ClockAdvance /\ UNCHANGED hist

SpecEndWork == InitEndWork /\ [][NextEndWork]_vars

\* the clock has not gone back: no reading kept in the todo is ahead of it
ReadingsNotAhead(td) ==
    /\ td.start_time # None => Unwrap(td.start_time) <= clock
    /\ td.end_time # None => Unwrap(td.end_time) <= clock

\* C20: end_work() is a no-op whenever is_working() is false, for a todo
\* never started and for a todo whose last session has been ended:
\* total_duration, start_time and end_time are unchanged (looked at where the
\* clock has not gone back, so that only end_work itself is in question).
C20_EndWorkNoOpWhenNotWorking ==
    (result # None /\ ~is_working(TheTodo) /\ ReadingsNotAhead(TheTodo)) =>
        /\ Unwrap(result).total_duration = TheTodo.total_duration
        /\ Unwrap(result).start_time = TheTodo.start_time
        /\ Unwrap(result).end_time = TheTodo.end_time

----------------------------------------------------------------------------
(* The text buffer *)

\* C21: the text buffer is live only outside Normal mode: whenever the loop
\* waits in Normal mode, after Enter or after Escape included, the buffer is
\* empty.
C21_BufferEmptyInNormalMode ==
    (status = "running" /\ input_mode = "Normal") => input = << >>

----------------------------------------------------------------------------
(* Renaming *)

\* a project of the list is selected
ProjectSelected ==
    project_state # None /\ Unwrap(project_state) < Len(projects)

\* a todo of the selected project is selected
TodoSelected ==
    /\ ProjectSelected
    /\ todo_state # None
    /\ Unwrap(todo_state) < Len(projects[Unwrap(project_state) + 1].todos)

\* the panel's entity under the selection, if there is one
EntitySelected ==
    IF active_panel = "Projects" THEN ProjectSelected ELSE TodoSelected

\* C22: the rename key enters RenamingProject or RenamingTodo with the buffer
\* equal to the selected project's name or the selected todo's title, and is
\* a no-op when nothing is selected; an Enter with a non-empty buffer in
\* these modes overwrites exactly that name or title and leaves list
\* lengths, order, every other field, every other entity and the selection
\* unchanged.
C22_RenameOverwritesOnlyTheName ==
    [][ /\ (KeyRename /\ EntitySelected) =>
              /\ status' = "running"
              /\ input_mode' = IF active_panel = "Projects"
                               THEN "RenamingProject"
                               ELSE "RenamingTodo"
              /\ input' = IF active_panel = "Projects"
                          THEN projects[Unwrap(project_state) + 1].name
                          ELSE CurrentTodo.title
              /\ UNCHANGED <<projects, project_state, todo_state,
                             active_panel, persisted>>
        /\ (KeyRename /\ ~EntitySelected) =>
              UNCHANGED <<app_vars, status>>
        /\ (EnterRenamingProject /\ input # << >> /\ project_state # None) =>
              LET p == Unwrap(project_state)
              IN  /\ status' = "running"
                  /\ p < Len(projects)
                  /\ Len(projects') = Len(projects)
                  /\ \A k \in 1 .. Len(projects) :
                        /\ k # p + 1 => projects'[k] = projects[k]
                        /\ projects'[k].todos = projects[k].todos
                  /\ projects'[p + 1].name = input
                  /\ UNCHANGED <<project_state, todo_state>>
        /\ ( /\ EnterRenamingTodo
             /\ input # << >>
             /\ project_state # None
             /\ todo_state # None ) =>
              LET p == Unwrap(project_state)
                  t == Unwrap(todo_state)
              IN  /\ status' = "running"
                  /\ TodoSelected
                  /\ Len(projects') = Len(projects)
                  /\ \A k \in 1 .. Len(projects) :
                        /\ k # p + 1 => projects'[k] = projects[k]
                        /\ projects'[k].name = projects[k].name
                        /\ Len(projects'[k].todos) = Len(projects[k].todos)
                  /\ \A j \in 1 .. Len(projects[p + 1].todos) :
                        projects'[p + 1].todos[j] =
                           IF j = t + 1
                           THEN [projects[p + 1].todos[j] EXCEPT
                                   !.title = input]
                           ELSE projects[p + 1].todos[j]
                  /\ UNCHANGED <<project_state, todo_state>> ]_vars

\* every project name and every todo title is a non-empty string
NamesNonEmpty(ps) ==
    \A k \in 1 .. Len(ps) :
       /\ ps[k].name # << >>
       /\ \A j \in 1 .. Len(ps[k].todos) : ps[k].todos[j].title # << >>

\* C23: from initial data in which every project name and todo title is
\* non-empty, every project name and todo title stays non-empty after any
\* sequence of key events: neither add nor rename commits an empty string.
C23_NamesStayNonEmpty ==
    NamesNonEmpty(projects) /\ (persisted.ok => NamesNonEmpty(persisted.projects))

\* C23 witness: Enter on an emptied buffer in RenamingProject has just been
\* handled, after a typed title was committed to a todo in the session (the
\* titles of the initial data have one character)
C23_Witness_EmptyNameRefused ==
    /\ status = "running"
    /\ last_key = [key |-> "Enter", mode |-> "RenamingProject", empty |-> TRUE]
    /\ \E k \in 1 .. Len(projects) :
          \E j \in 1 .. Len(projects[k].todos) :
             projects[k].todos[j].title = <<"q", "q">>

----------------------------------------------------------------------------
(* Keys in a text-entry mode *)

\* C24: while the mode is a text-entry mode, Enter is the only key that can
\* change the project/todo data, the selection or the persisted data, and no
\* key changes the active panel: a character (the command characters
\* included) and Backspace only edit the buffer, and every other key is
\* ignored.
C24_OnlyEnterActsInTextEntry ==
    [][ /\ ( /\ TextEntry
             /\ <<projects, project_state, todo_state, persisted>>' #
                   <<projects, project_state, todo_state, persisted>> )
              => AnyEnter
        /\ TextEntry => active_panel' = active_panel
        /\ \A c \in Chars :
              TextChar(c) =>
                 /\ input' = Append(input, c)
                 /\ UNCHANGED <<projects, project_state, todo_state,
                                active_panel, input_mode, persisted, status>>
        /\ TextBackspace =>
              /\ input' = SubSeq(input, 1, Len(input) - 1)
              /\ UNCHANGED <<projects, project_state, todo_state,
                             active_panel, input_mode, persisted, status>>
        /\ KeyOtherText => UNCHANGED <<app_vars, status>> ]_vars

\* C24 witness: in AddingTodo, entered with an empty buffer, the quit
\* character has been typed twice and the session goes on in that mode
C24_Witness_CommandCharsTyped ==
    /\ status = "running"
    /\ input_mode = "AddingTodo"
    /\ input = <<"q", "q">>
    /\ active_panel = "Todos"

----------------------------------------------------------------------------
(* Todos made and timed in the session, under a clock that does not go back *)

NextSession ==
    \/ ui /\ UNCHANGED hist
    \/ KeyTab /\ UNCHANGED hist
    \/ KeyDownProjects /\ UNCHANGED hist
    \/ KeyDownTodos /\ UNCHANGED hist
    \/ KeyUpTodos /\ UNCHANGED hist
    \/ KeyAdd /\ UNCHANGED hist
    \/ (\E c \in Chars : TextChar(c)) /\ UNCHANGED hist
    \/ EnterAddingTodo /\ UNCHANGED hist
    \/ KeyTimer /\ UNCHANGED hist
    \/ KeySpace /\ UNCHANGED hist
    \/ ClockAdvance /\ UNCHANGED hist

\* data files with one project and no todos: every todo is made in the
\* session
SessionLists ==
    {ps \in LoadedProjectLists : Len(ps) = 1 /\ CountTodos(ps) = 0}

InitSession ==
    /\ \E ps \in SessionLists :
          /\ persisted = [ok |-> TRUE, projects |-> ps]
          /\ AppNew(ps)
    /\ StartOn({Wide, Narrow})
    /\ pair = NoPair

SpecSession == InitSession /\ [][NextSession]_vars

\* never started, working, or stopped with the end not before the start
WellShaped(td) ==
    \/ td.start_time = None /\ td.end_time = None
    \/ td.start_time # None /\ td.end_time = None
    \/ /\ td.start_time # None
       /\ td.end_time # None
       /\ Unwrap(td.end_time) >= Unwrap(td.start_time)

\* C25: under a clock that does not go back, in every reachable state every
\* todo has end_time set only if start_time is set, and then end_time >=
\* start_time: it is never started, working, or stopped.
C25_TimerFieldsWellShaped ==
    \A k \in 1 .. Len(projects) :
       \A j \in 1 .. Len(projects[k].todos) :
          WellShaped(projects[k].todos[j])

\* C25 witness: a todo made in the session (its title was typed) is working
\* again after a session that ended later than it began
C25_Witness_MadeTodoRestarted ==
    /\ status = "running"
    /\ \E k \in 1 .. Len(projects) :
          \E j \in 1 .. Len(projects[k].todos) :
             LET td == projects[k].todos[j]
             IN  /\ td.title = <<"q", "q">>
                 /\ td.total_duration > 0
                 /\ is_working(td)

====
